---- MODULE Spec2Model ----
(***************************************************************************)
(* Single-decree Paxos register actor (src/src/main.rs) run inside the     *)
(* stateright actor model that PaxosModelConfig::into_model builds:        *)
(* server_count PaxosActor servers, client_count register clients that     *)
(* each issue one Put and then one Get, an unordered non-duplicating       *)
(* network held as a set of envelopes, and a linearizability tester fed    *)
(* by the client messages.                                                 *)
(***************************************************************************)
EXTENDS Integers, Sequences, FiniteSets, TLC

VARIABLES
    server_count,   \* PaxosModelConfig.server_count
    client_count,   \* PaxosModelConfig.client_count
    actor_states,   \* Id -> PaxosState (servers) or client state
    network,        \* envelopes in flight
    history,        \* the LinearizabilityTester
    sent            \* every envelope ever handed to the network

vars == <<server_count, client_count, actor_states, network, history, sent>>

(***************************************************************************)
(* Configurations                                                          *)
(***************************************************************************)
\* main(): server_count: 3
ServerCount == 3
\* main(): let clients = 3
ClientCount == 3
\* a model with one server fewer, in which PairClients clients make server 0
\* handle more than one Put
PairServers == ServerCount - 1
PairClients == 3
\* a model with one server more and QuadClients clients
QuadServers == ServerCount + 1
QuadClients == 1

Servers == 0 .. (server_count - 1)
Clients == server_count .. (server_count + client_count - 1)

\* stateright model_peers(i, server_count): every server but i
model_peers(i) == Servers \ {i}

\* RegisterValue::default()
DefaultValue == "NUL"
Letters == <<"A", "B", "C", "D", "E", "F">>

(***************************************************************************)
(* RoundIdentifier and its order                                           *)
(***************************************************************************)
RoundIdentifier(round_num, id) == [round_num |-> round_num, id |-> id]

\* Ord::cmp : -1 (Less), 0 (Equal), 1 (Greater)
cmp(self, other) ==
    IF self.round_num # other.round_num
    THEN (IF self.round_num < other.round_num THEN -1 ELSE 1)
    ELSE (IF self.id < other.id THEN -1 ELSE IF self.id = other.id THEN 0 ELSE 1)

\* rid > val
Greater(rid, val) == cmp(rid, val) = 1

(***************************************************************************)
(* Messages                                                                *)
(***************************************************************************)
Put(request_id, value) == [type |-> "Put", request_id |-> request_id, value |-> value]
Get(request_id) == [type |-> "Get", request_id |-> request_id]
PutOk(request_id) == [type |-> "PutOk", request_id |-> request_id]
GetOk(request_id, value) == [type |-> "GetOk", request_id |-> request_id, value |-> value]
Prepare(request_id, org_sender, rid) ==
    [type |-> "Prepare", request_id |-> request_id, org_sender |-> org_sender, rid |-> rid]
Promise(request_id, org_sender, rid) ==
    [type |-> "Promise", request_id |-> request_id, org_sender |-> org_sender, rid |-> rid]
Accept(request_id, org_sender, rid, value) ==
    [type |-> "Accept", request_id |-> request_id, org_sender |-> org_sender,
     rid |-> rid, value |-> value]
Accepted(request_id, org_sender, rid, value) ==
    [type |-> "Accepted", request_id |-> request_id, org_sender |-> org_sender,
     rid |-> rid, value |-> value]

Envelope(src, dst, msg) == [src |-> src, dst |-> dst, msg |-> msg]

\* o.send(dst, msg) and o.broadcast(peers, msg) as the envelopes they produce
Send(id, dst, msg) == {Envelope(id, dst, msg)}
Broadcast(id, peers, msg) == {Envelope(id, p, msg) : p \in peers}

(***************************************************************************)
(* Maps (BTreeMap) as functions over their key set                         *)
(***************************************************************************)
EmptyMap == [k \in {} |-> {}]
MapInsert(m, k, v) == [x \in (DOMAIN m) \cup {k} |-> IF x = k THEN v ELSE m[x]]
\* a tally kept as a list: a sender already present is entered once more,
\* here under a fresh identity, so that the count grows
TallyInsertCounting(m, rid, src) ==
    MapInsert(m, rid,
              IF rid \in DOMAIN m
              THEN m[rid] \cup {IF src \in m[rid]
                                THEN src + (server_count + client_count) * Cardinality(m[rid])
                                ELSE src}
              ELSE {src})

\* match m.get_mut(&rid) { Some(set) => set.insert(src), None => m.insert(rid, {src}) }
TallyInsert(m, rid, src) ==
    MapInsert(m, rid, IF rid \in DOMAIN m THEN m[rid] \cup {src} ELSE {src})
\* match m.get(&rid) { Some(s) => s.len(), None => 0 }
TallyCount(m, rid) == IF rid \in DOMAIN m THEN Cardinality(m[rid]) ELSE 0

(***************************************************************************)
(* PaxosState and PaxosActor                                               *)
(***************************************************************************)
\* PaxosActor::on_start
on_start(id) ==
    [id |-> id, round |-> 0, prepare_data |-> EmptyMap, promises |-> EmptyMap,
     accepts |-> EmptyMap, last_seen |-> {}, value |-> {}, decided |-> FALSE]

\* a handler's result: the state, the messages put in Out, and whether the
\* state Cow was made Owned (state.to_mut())
Result(state, out, owned) == [state |-> state, out |-> out, owned |-> owned]
Ignored(state) == Result(state, {}, FALSE)

\* next_round that hands out the current round without incrementing it
next_round_reused(state) == state

\* PaxosState::next_round : the state with round incremented; the ballot is
\* RoundIdentifier(round, id) of the returned state
next_round(state) == [state EXCEPT !.round = state.round + 1]

\* the majority test with >= in place of >
majorityAtHalf(id, count) == count >= (Cardinality(model_peers(id)) \div 2)

\* count > num_peers / 2
majority(id, count) == count > (Cardinality(model_peers(id)) \div 2)

\* OnPrepare granting a ballot equal to last_seen as well
OnPrepareNotStrict(id, state, src, msg) ==
    IF state.decided THEN Ignored(state)
    ELSE LET greater == IF state.last_seen = {} THEN TRUE
                        ELSE \E val \in state.last_seen : ~Greater(val, msg.rid)
         IN IF greater
            THEN Result([state EXCEPT !.last_seen = {msg.rid}],
                        Send(id, src, Promise(msg.request_id, msg.org_sender, msg.rid)),
                        TRUE)
            ELSE Ignored(state)

\* OnPrepare without the decided guard
OnPrepareAfterDecision(id, state, src, msg) ==
    LET greater == IF state.last_seen = {} THEN TRUE
                   ELSE \E val \in state.last_seen : Greater(msg.rid, val)
    IN IF greater
       THEN Result([state EXCEPT !.last_seen = {msg.rid}],
                   Send(id, src, Promise(msg.request_id, msg.org_sender, msg.rid)),
                   TRUE)
       ELSE Ignored(state)

OnPrepare(id, state, src, msg) ==
    IF state.decided THEN Ignored(state)
    ELSE LET greater == IF state.last_seen = {} THEN TRUE
                        ELSE \E val \in state.last_seen : Greater(msg.rid, val)
         IN IF greater
            THEN Result([state EXCEPT !.last_seen = {msg.rid}],
                        Send(id, src, Promise(msg.request_id, msg.org_sender, msg.rid)),
                        TRUE)
            ELSE Ignored(state)

\* OnPromise proposing the value of the latest ballot minted instead of the
\* value stored for the ballot of the Promise
OnPromiseLatestValue(id, state, src, msg) ==
    IF state.decided THEN Ignored(state)
    ELSE LET st == [state EXCEPT !.promises = TallyInsert(state.promises, msg.rid, src)]
         IN IF msg.rid \notin DOMAIN st.prepare_data
            THEN Result(st, {}, TRUE)
            ELSE LET latest == CHOOSE k \in DOMAIN st.prepare_data :
                                   \A j \in DOMAIN st.prepare_data : ~Greater(j, k)
                     value == st.prepare_data[latest]
                     count == TallyCount(st.promises, msg.rid)
                 IN IF majority(id, count)
                    THEN Result(st,
                                Broadcast(id, model_peers(id),
                                          Accept(msg.request_id, msg.org_sender, msg.rid, value)),
                                TRUE)
                    ELSE Result(st, {}, TRUE)

OnPromise(id, state, src, msg) ==
    IF state.decided THEN Ignored(state)
    ELSE LET st == [state EXCEPT !.promises = TallyInsert(state.promises, msg.rid, src)]
         IN IF msg.rid \notin DOMAIN st.prepare_data
            THEN Result(st, {}, TRUE)
            ELSE LET value == st.prepare_data[msg.rid]
                     count == TallyCount(st.promises, msg.rid)
                 IN IF majority(id, count)
                    THEN Result(st,
                                Broadcast(id, model_peers(id),
                                          Accept(msg.request_id, msg.org_sender, msg.rid, value)),
                                TRUE)
                    ELSE Result(st, {}, TRUE)

\* OnAccept without the decided guard
OnAcceptAfterDecision(id, state, src, msg) ==
    IF {msg.rid} = state.last_seen
    THEN Result(state,
                Broadcast(id, model_peers(id),
                          Accepted(msg.request_id, msg.org_sender, msg.rid, msg.value)),
                FALSE)
    ELSE Ignored(state)

\* OnAccept without the comparison against last_seen
OnAcceptAnyBallot(id, state, src, msg) ==
    IF state.decided THEN Ignored(state)
    ELSE Result(state,
                Broadcast(id, model_peers(id),
                          Accepted(msg.request_id, msg.org_sender, msg.rid, msg.value)),
                FALSE)

OnAccept(id, state, src, msg) ==
    IF state.decided THEN Ignored(state)
    ELSE IF {msg.rid} = state.last_seen
         THEN Result(state,
                     Broadcast(id, model_peers(id),
                               Accepted(msg.request_id, msg.org_sender, msg.rid, msg.value)),
                     FALSE)
         ELSE Ignored(state)

\* OnAccepted deciding on the default value instead of the value carried
OnAcceptedDecidesDefault(id, state, src, msg) ==
    IF state.decided THEN Ignored(state)
    ELSE LET st == [state EXCEPT !.accepts = TallyInsert(state.accepts, msg.rid, src)]
             count == TallyCount(st.accepts, msg.rid)
         IN IF majority(id, count)
            THEN Result([st EXCEPT !.value = {DefaultValue}, !.decided = TRUE],
                        Send(id, msg.org_sender, PutOk(msg.request_id)),
                        TRUE)
            ELSE Result(st, {}, TRUE)

\* OnAccepted replying to the sender of the Accepted instead of org_sender
OnAcceptedReplyToSender(id, state, src, msg) ==
    IF state.decided THEN Ignored(state)
    ELSE LET st == [state EXCEPT !.accepts = TallyInsert(state.accepts, msg.rid, src)]
             count == TallyCount(st.accepts, msg.rid)
         IN IF majority(id, count)
            THEN Result([st EXCEPT !.value = {msg.value}, !.decided = TRUE],
                        Send(id, src, PutOk(msg.request_id)),
                        TRUE)
            ELSE Result(st, {}, TRUE)

OnAccepted(id, state, src, msg) ==
    IF state.decided THEN Ignored(state)
    ELSE LET st == [state EXCEPT !.accepts = TallyInsert(state.accepts, msg.rid, src)]
             count == TallyCount(st.accepts, msg.rid)
         IN IF majority(id, count)
            THEN Result([st EXCEPT !.value = {msg.value}, !.decided = TRUE],
                        Send(id, msg.org_sender, PutOk(msg.request_id)),
                        TRUE)
            ELSE Result(st, {}, TRUE)

OnPut(id, state, src, msg) ==
    LET st1 == next_round(state)
        rid == RoundIdentifier(st1.round, st1.id)
        st2 == [st1 EXCEPT !.prepare_data = MapInsert(st1.prepare_data, rid, msg.value)]
    IN Result(st2, Broadcast(id, model_peers(id), Prepare(msg.request_id, src, rid)), TRUE)

\* a fall-through arm that answers Get from the node's own decided value
OnOtherAnswersGet(id, state, src, msg) ==
    IF msg.type = "Get"
    THEN Result(state,
                Send(id, src, GetOk(msg.request_id,
                                    IF state.value = {} THEN DefaultValue
                                    ELSE CHOOSE v \in state.value : TRUE)),
                FALSE)
    ELSE Ignored(state)

\* the  _ => {}  arm: Get, PutOk and GetOk at a server
OnOther(id, state, src, msg) == Ignored(state)

\* PaxosActor::on_msg
on_msg(id, state, src, msg) ==
    CASE msg.type = "Prepare"  -> OnPrepare(id, state, src, msg)
      [] msg.type = "Promise"  -> OnPromise(id, state, src, msg)
      [] msg.type = "Accept"   -> OnAccept(id, state, src, msg)
      [] msg.type = "Accepted" -> OnAccepted(id, state, src, msg)
      [] msg.type = "Put"      -> OnPut(id, state, src, msg)
      [] OTHER                 -> OnOther(id, state, src, msg)

(***************************************************************************)
(* RegisterActor::Client { put_count: 1, server_count }                    *)
(***************************************************************************)
ClientValue(index) == Letters[index - server_count + 1]

\* on_start of a client: it awaits the reply to the Put it sends
client_on_start(index) == [awaiting |-> {index}, op_count |-> 1]
client_start_out(index) ==
    Send(index, index % server_count, Put(index, ClientValue(index)))

client_on_msg(index, state, src, msg) ==
    IF msg.type = "PutOk" /\ {msg.request_id} = state.awaiting
    THEN LET unique_request_id == (state.op_count + 1) * index
         IN Result([awaiting |-> {unique_request_id}, op_count |-> state.op_count + 1],
                   Send(index, (index + state.op_count) % server_count,
                        Get(unique_request_id)),
                   TRUE)
    ELSE IF msg.type = "GetOk" /\ {msg.request_id} = state.awaiting
    THEN Result([awaiting |-> {}, op_count |-> state.op_count + 1], {}, TRUE)
    ELSE Ignored(state)

(***************************************************************************)
(* LinearizabilityTester<Id, Register<RegisterValue>>                      *)
(***************************************************************************)
MapRemove(m, k) == [x \in (DOMAIN m) \ {k} |-> m[x]]

Write(value) == [op |-> "Write", value |-> value]
Read == [op |-> "Read"]
WriteOk == [ret |-> "WriteOk"]
ReadOk(value) == [ret |-> "ReadOk", value |-> value]

\* LinearizabilityTester::new(Register(RegisterValue::default()))
new_tester ==
    [history_by_thread |-> EmptyMap, in_flight_by_thread |-> EmptyMap,
     is_valid_history |-> TRUE]

on_invoke(h, thread_id, op) ==
    IF ~h.is_valid_history THEN h
    ELSE IF thread_id \in DOMAIN h.in_flight_by_thread
    THEN [h EXCEPT !.is_valid_history = FALSE]
    ELSE LET last_completed ==
                 [t \in (DOMAIN h.history_by_thread) \ {thread_id} |->
                     Len(h.history_by_thread[t])]
         IN [h EXCEPT
               !.in_flight_by_thread =
                   MapInsert(@, thread_id, [lcs |-> last_completed, op |-> op]),
               !.history_by_thread =
                   IF thread_id \in DOMAIN @ THEN @ ELSE MapInsert(@, thread_id, <<>>)]

on_return(h, thread_id, ret) ==
    IF ~h.is_valid_history THEN h
    ELSE IF thread_id \notin DOMAIN h.in_flight_by_thread
    THEN [h EXCEPT !.is_valid_history = FALSE]
    ELSE LET f == h.in_flight_by_thread[thread_id]
             done == [lcs |-> f.lcs, op |-> f.op, ret |-> ret]
             old == IF thread_id \in DOMAIN h.history_by_thread
                    THEN h.history_by_thread[thread_id] ELSE <<>>
         IN [h EXCEPT
               !.in_flight_by_thread = MapRemove(@, thread_id),
               !.history_by_thread = MapInsert(@, thread_id, Append(old, done))]

\* Register::is_valid_step
is_valid_step(ref, op, ret) ==
    \/ op.op = "Write" /\ ret.ret = "WriteOk"
    \/ op.op = "Read" /\ ret.ret = "ReadOk" /\ ret.value = ref

\* Register::invoke : the register after the operation
invoke(ref, op) == IF op.op = "Write" THEN op.value ELSE ref

\* an operation may not be placed before an operation of a peer that had
\* completed when it was invoked
violation(h, lcs, pos) ==
    \E peer \in DOMAIN lcs :
        /\ peer \in DOMAIN pos
        /\ pos[peer] < Len(h.history_by_thread[peer])
        /\ pos[peer] < lcs[peer]

RECURSIVE serialize(_, _, _, _)
serialize(h, ref, pos, in_flight) ==
    IF \A t \in DOMAIN pos : pos[t] = Len(h.history_by_thread[t])
    THEN TRUE
    ELSE \E t \in DOMAIN pos :
            IF pos[t] = Len(h.history_by_thread[t])
            THEN /\ t \in DOMAIN in_flight
                 /\ ~violation(h, in_flight[t].lcs, pos)
                 /\ serialize(h, invoke(ref, in_flight[t].op), pos, MapRemove(in_flight, t))
            ELSE LET c == h.history_by_thread[t][pos[t] + 1]
                 IN /\ ~violation(h, c.lcs, pos)
                    /\ is_valid_step(ref, c.op, c.ret)
                    /\ serialize(h, invoke(ref, c.op), [pos EXCEPT ![t] = @ + 1], in_flight)

\* serialized_history().is_some()
serialized_history_is_some(h) ==
    /\ h.is_valid_history
    /\ serialize(h, DefaultValue, [t \in DOMAIN h.history_by_thread |-> 0],
                 h.in_flight_by_thread)

\* RegisterMsg::record_invocations over the messages of one Out
record_invocations(h, out) ==
    IF \E e \in out : e.msg.type \in {"Put", "Get"}
    THEN LET e == CHOOSE e \in out : e.msg.type \in {"Put", "Get"}
         IN on_invoke(h, e.src, IF e.msg.type = "Put" THEN Write(e.msg.value) ELSE Read)
    ELSE h

\* RegisterMsg::record_returns
record_returns(h, env) ==
    CASE env.msg.type = "GetOk" -> on_return(h, env.dst, ReadOk(env.msg.value))
      [] env.msg.type = "PutOk" -> on_return(h, env.dst, WriteOk)
      [] OTHER                  -> h

(***************************************************************************)
(* The actor model                                                         *)
(***************************************************************************)
RECURSIVE start_history(_, _)
start_history(h, ids) ==
    IF ids = {} THEN h
    ELSE LET i == CHOOSE x \in ids : \A y \in ids : x <= y
         IN start_history(on_invoke(h, i, Write(Letters[i - server_count + 1])), ids \ {i})

\* ActorModel::init_states for PaxosModelConfig { client_count: c, server_count: s }
InitModel(s, c) ==
    /\ server_count = s
    /\ client_count = c
    /\ actor_states = [i \in 0 .. (s + c - 1) |->
                          IF i < s THEN on_start(i) ELSE client_on_start(i)]
    /\ network = UNION {client_start_out(i) : i \in s .. (s + c - 1)}
    /\ sent = network
    /\ history = start_history(new_tester, s .. (s + c - 1))

\* the handler the destination of an envelope runs
handle(env) ==
    IF env.dst \in Servers
    THEN on_msg(env.dst, actor_states[env.dst], env.src, env.msg)
    ELSE client_on_msg(env.dst, actor_states[env.dst], env.src, env.msg)

\* is_no_op: the state was not made Owned and nothing was output
is_no_op(r) == ~r.owned /\ r.out = {}

\* ActorModelAction::Deliver on the non-duplicating network
Deliver(env) ==
    LET r == handle(env)
    IN /\ ~is_no_op(r)
       /\ actor_states' = [actor_states EXCEPT ![env.dst] = r.state]
       /\ network' = (network \ {env}) \cup r.out
       /\ sent' = sent \cup r.out
       /\ history' = record_invocations(record_returns(history, env), r.out)
       /\ UNCHANGED <<server_count, client_count>>

\* a client request (Put or Get) reaches a server
DeliverRequest == \E env \in network : env.msg.type \in {"Put", "Get"} /\ Deliver(env)
DeliverPrepare == \E env \in network : env.msg.type = "Prepare" /\ Deliver(env)
DeliverPromise == \E env \in network : env.msg.type = "Promise" /\ Deliver(env)
DeliverAccept == \E env \in network : env.msg.type = "Accept" /\ Deliver(env)
DeliverAccepted == \E env \in network : env.msg.type = "Accepted" /\ Deliver(env)
\* a reply (PutOk or GetOk) reaches its destination
DeliverReply == \E env \in network : env.msg.type \in {"PutOk", "GetOk"} /\ Deliver(env)

Next ==
    \/ DeliverRequest
    \/ DeliverPrepare
    \/ DeliverPromise
    \/ DeliverAccept
    \/ DeliverAccepted
    \/ DeliverReply

Init == InitModel(ServerCount, ClientCount)
Spec == Init /\ [][Next]_vars

InitPair == InitModel(PairServers, PairClients)
SpecPair == InitPair /\ [][Next]_vars

InitQuad == InitModel(QuadServers, QuadClients)
SpecQuad == InitQuad /\ [][Next]_vars

\* the network is not lossy: a message that can be delivered is delivered
FairSpec == Spec /\ WF_vars(Next)

\* the three-server model with a single client: one Put, at server 0
InitSolo == InitModel(ServerCount, 1)

\* the three-server model with two clients: one Put at server 0, one at server 1
InitDuel == InitModel(ServerCount, 2)
SpecDuel == InitDuel /\ [][Next]_vars

\* the three-server model with one or with two clients
InitFew == InitSolo \/ InitDuel
SpecFew == InitFew /\ [][Next]_vars

\* nothing in flight can be delivered with an effect: the run is complete
Quiescent == \A env \in network : is_no_op(handle(env))

\* the last server, cut off from the others and from the clients
Isolated == ServerCount - 1
Involves(env, n) == env.src = n \/ env.dst = n

\* the network loses an envelope
Drop(env) ==
    /\ network' = network \ {env}
    /\ UNCHANGED <<server_count, client_count, actor_states, history, sent>>

\* delivery between the connected actors
DeliverConnected == \E env \in network : ~Involves(env, Isolated) /\ Deliver(env)
\* every message to or from the isolated server is lost
DropIsolated == \E env \in network : Involves(env, Isolated) /\ Drop(env)

NextLoss ==
    \/ DeliverConnected
    \/ DropIsolated

\* the three-server model with one, two or three clients and the last server
\* isolated
InitLoss == InitSolo \/ InitDuel \/ Init
SpecLoss == InitLoss /\ [][NextLoss]_vars

\* in the lossy run, nothing in flight can still be delivered or dropped
QuiescentLoss ==
    \A env \in network : ~Involves(env, Isolated) /\ is_no_op(handle(env))

(***************************************************************************)
(* Properties                                                              *)
(***************************************************************************)
Decided(n) == actor_states[n].decided
SentOfType(type) == {e \in sent : e.msg.type = type}
InFlightTo(n, type) == {e \in network : e.dst = n /\ e.msg.type = type}

\* C1 (Agreement): any two servers that have decided hold the same decided
\* value, so at most one distinct value is ever decided.
Agreement ==
    \A m, n \in Servers :
        (Decided(m) /\ Decided(n)) => actor_states[m].value = actor_states[n].value

\* the acceptances a promiser of ballot b2 had made for lower ballots
PriorAccepted(promisers, b2) ==
    {a \in SentOfType("Accepted") : a.src \in promisers /\ Greater(b2, a.msg.rid)}

\* C2 (Value-adoption law): every Accept broadcast for a ballot b2 carries the
\* value of the highest ballot below b2 that was accepted by a node whose
\* promise for b2 the proposer recorded, whenever there is such an acceptance.
ValueAdoption ==
    \A e \in SentOfType("Accept") :
        LET b2 == e.msg.rid
            tally == actor_states[e.src].promises
            promisers == IF b2 \in DOMAIN tally THEN tally[b2] ELSE {}
            prior == PriorAccepted(promisers, b2)
        IN \A a \in prior :
              (\A a2 \in prior : ~Greater(a2.msg.rid, a.msg.rid))
                  => e.msg.value = a.msg.value

InternalTypes == {"Prepare", "Promise", "Accept", "Accepted"}
\* the envelopes in flight that are addressed to a server
ToServers == {env \in network : env.dst \in Servers}

\* C3 (Acceptor regression-freedom): a server emits Accepted(b, v) only while
\* handling Accept(b, v) with b equal to its last_seen; an Accept for any
\* other ballot emits nothing and changes nothing; every Accepted ever sent
\* answers an Accept for that ballot and value addressed to its sender, who
\* had promised the ballot.
RegressionFree ==
    /\ \A env \in ToServers :
          LET st == actor_states[env.dst]
              r == handle(env)
              acc == {o \in r.out : o.msg.type = "Accepted"}
          IN /\ acc # {} =>
                    /\ env.msg.type = "Accept"
                    /\ st.last_seen = {env.msg.rid}
                    /\ \A o \in acc : /\ o.src = env.dst
                                      /\ o.msg.rid = env.msg.rid
                                      /\ o.msg.value = env.msg.value
             /\ (env.msg.type = "Accept" /\ st.last_seen # {env.msg.rid}) =>
                    (r.out = {} /\ r.state = st)
    /\ \A e \in SentOfType("Accepted") :
          /\ \E a \in SentOfType("Accept") :
                /\ a.dst = e.src
                /\ a.msg.rid = e.msg.rid
                /\ a.msg.value = e.msg.value
          /\ \E q \in SentOfType("Promise") : q.src = e.src /\ q.msg.rid = e.msg.rid

\* C3 witness: an Accepted was emitted, and an Accept for a ballot below the
\* last_seen of its undecided destination is in flight.
RegressionFreeWitness ==
    /\ SentOfType("Accepted") # {}
    /\ \E env \in ToServers :
          /\ env.msg.type = "Accept"
          /\ ~Decided(env.dst)
          /\ \E b \in actor_states[env.dst].last_seen : Greater(b, env.msg.rid)

\* C4 (Linearizability): the recorded history of Put/Get invocations and
\* PutOk/GetOk returns has a legal sequential history of one register that
\* starts at the default value.
Linearizable == serialized_history_is_some(history)

\* C4 witness: two clients have had their Put return and have invoked Get.
LinearizableWitness ==
    \E c, d \in Clients :
        /\ c # d
        /\ \A t \in {c, d} :
              /\ Len(history.history_by_thread[t]) = 1
              /\ t \in DOMAIN history.in_flight_by_thread
              /\ history.in_flight_by_thread[t].op = Read

\* the predicate of the "value chosen" property of into_model
ValueChosen ==
    \E env \in network : env.msg.type = "GetOk" /\ env.msg.value # DefaultValue

\* C5 (Value chosen is reachable): a state whose network holds a GetOk with a
\* non-default value is reached.
EventuallyValueChosen == <>ValueChosen

\* no GetOk is ever sent
NoGetOk == SentOfType("GetOk") = {}

\* a protocol message in flight to a decided server is ignored
DecisionFinalState ==
    \A env \in ToServers :
        (Decided(env.dst) /\ env.msg.type \in InternalTypes) =>
            handle(env) = Ignored(actor_states[env.dst])

\* a decided server stays decided on the same value
DecisionFinalStep ==
    \A n \in Servers :
        Decided(n) => /\ actor_states'[n].decided
                      /\ actor_states'[n].value = actor_states[n].value

\* C6 (Decision finality): at a decided server a Prepare, Promise, Accept or
\* Accepted leaves the whole state unchanged and emits nothing; decided never
\* returns to false and the decided value never changes.
DecisionFinal == []DecisionFinalState /\ [][DecisionFinalStep]_vars

\* C6 witness: a decided server has in flight to it a Prepare above its
\* last_seen, a Promise, an Accept and an Accepted.
DecisionFinalWitness ==
    \E n \in Servers :
        /\ Decided(n)
        /\ \E env \in InFlightTo(n, "Prepare") :
              \A b \in actor_states[n].last_seen : Greater(env.msg.rid, b)
        /\ InFlightTo(n, "Accepted") # {}

\* C7 (At-most-one response): for every request id at most one PutOk is ever
\* sent, all servers counted together, and at most one decision response is
\* sent for the instance.
AtMostOneResponse ==
    /\ \A e, f \in SentOfType("PutOk") : e.msg.request_id = f.msg.request_id => e = f
    /\ Cardinality(SentOfType("PutOk")) <= 1

\* C8 (Decision routing): a PutOk is emitted only by the handling of an
\* Accepted for a ballot b whose tally of distinct senders crosses the majority
\* threshold in that step; the step sets decided and the decided value to the
\* value carried, and the PutOk goes to the client whose Put minted b, under
\* that Put's request id.
DecisionRouting ==
    /\ \A env \in network :
          LET r == handle(env)
          IN \A o \in r.out :
                o.msg.type = "PutOk" =>
                    LET st == actor_states[env.dst]
                        b == env.msg.rid
                    IN /\ env.dst \in Servers
                       /\ env.msg.type = "Accepted"
                       /\ ~majority(env.dst, TallyCount(st.accepts, b))
                       /\ majority(env.dst, TallyCount(r.state.accepts, b))
                       /\ r.state.accepts[b] = TallyInsert(st.accepts, b, env.src)[b]
                       /\ ~st.decided
                       /\ r.state.decided
                       /\ r.state.value = {env.msg.value}
                       /\ b \in DOMAIN actor_states[b.id].prepare_data
                       /\ Envelope(o.dst, b.id,
                                   Put(o.msg.request_id,
                                       actor_states[b.id].prepare_data[b])) \in sent
                       /\ \E q \in SentOfType("Prepare") :
                             /\ q.src = b.id
                             /\ q.msg.rid = b
                             /\ q.msg.org_sender = o.dst
                             /\ q.msg.request_id = o.msg.request_id
    /\ \A e \in SentOfType("PutOk") : e.dst \in Clients /\ Decided(e.src)

\* C8 witness: an Accepted that completes a majority is in flight to an
\* undecided server, and a PutOk has already been sent.
DecisionRoutingWitness ==
    /\ SentOfType("PutOk") # {}
    /\ \E env \in ToServers : \E o \in handle(env).out : o.msg.type = "PutOk"

\* C9 (Quorum correctness): an undecided server broadcasts Accept for a ballot
\* it proposed (decides on a ballot) exactly when the number of distinct
\* servers recorded as promising (accepting) it exceeds server_count / 2.
QuorumCorrect ==
    \A env \in ToServers :
        LET st == actor_states[env.dst]
            r == handle(env)
            b == env.msg.rid
        IN ~st.decided =>
              /\ (env.msg.type = "Promise" /\ b \in DOMAIN st.prepare_data) =>
                    ((\E o \in r.out : o.msg.type = "Accept" /\ o.msg.rid = b)
                        <=> TallyCount(r.state.promises, b) > server_count \div 2)
              /\ env.msg.type = "Accepted" =>
                    (r.state.decided
                        <=> TallyCount(r.state.accepts, b) > server_count \div 2)

\* the ballots a server has minted: the keys of its prepare_data
Minted(n) == DOMAIN actor_states[n].prepare_data
AllMinted == UNION {Minted(n) : n \in Servers}

\* C10 (Monotonic, unique ballots): the ballot a server mints on a Put is
\* strictly greater than every ballot it minted before and differs from every
\* ballot minted by another server; cmp is a total order on the minted ballots.
MonotonicBallots ==
    /\ \A env \in ToServers :
          env.msg.type = "Put" =>
              LET r == handle(env)
                  fresh == (DOMAIN r.state.prepare_data) \ Minted(env.dst)
              IN /\ Cardinality(fresh) = 1
                 /\ \A nb \in fresh :
                       /\ \A o \in r.out : o.msg.type = "Prepare" /\ o.msg.rid = nb
                       /\ \A k \in Minted(env.dst) : Greater(nb, k)
                       /\ \A m \in Servers \ {env.dst} :
                             \A k \in Minted(m) : cmp(nb, k) # 0 /\ nb # k
    /\ \A m, n \in Servers : m # n => Minted(m) \cap Minted(n) = {}
    /\ \A a, b \in AllMinted :
          /\ cmp(a, b) = 0 - cmp(b, a)
          /\ (cmp(a, b) = 0) <=> (a = b)
          /\ \A c \in AllMinted : (Greater(a, b) /\ Greater(b, c)) => Greater(a, c)

\* C10 witness: a server has minted two ballots and another server one.
MonotonicBallotsWitness ==
    \E m, n \in Servers : m # n /\ Cardinality(Minted(m)) >= 2 /\ Minted(n) # {}

\* a client whose Put has been answered: it has moved on to its Get
PutAnswered(c) == actor_states[c].op_count >= 2

\* C11 (Scenario A, happy path): with 3 servers and a single Put, once every
\* message has been delivered all 3 servers are decided on the value of the
\* Put and the client has received the response.
ScenarioA ==
    (client_count = 1 /\ Quiescent) =>
        /\ \A n \in Servers :
              Decided(n) /\ actor_states[n].value = {ClientValue(server_count)}
        /\ PutAnswered(server_count)

\* in the single-Put run only the proposer ever decides
SoloOnlyProposerDecides ==
    client_count = 1 => \A n \in Servers \ {0} : ~Decided(n)

\* C12 (Scenario B, competing proposers): with 3 servers and one Put at each of
\* servers 0 and 1, the two values are never both decided, and once every
\* message has been delivered one of them is decided.
ScenarioB ==
    /\ \A m, n \in Servers :
          (Decided(m) /\ Decided(n)) => actor_states[m].value = actor_states[n].value
    /\ Quiescent => \E n \in Servers : Decided(n)

\* once every message has been delivered, some server is decided
DuelSomeDecision == Quiescent => \E n \in Servers : Decided(n)

\* C13 (Scenario C, partial loss): with the last of 3 servers isolated, once
\* every message has been delivered or lost the two connected servers are
\* decided, on one value, and the isolated server has decided nothing else.
ScenarioC ==
    /\ QuiescentLoss => \A n \in Servers \ {Isolated} : Decided(n)
    /\ \A m, n \in Servers :
          (Decided(m) /\ Decided(n)) => actor_states[m].value = actor_states[n].value

\* with the last server isolated no server ever decides
LossNoDecision == \A n \in Servers : ~Decided(n)

\* the Promise and Accepted envelopes ever addressed to a server
Responses ==
    {e \in sent : e.dst \in Servers /\ e.msg.type \in {"Promise", "Accepted"}}

\* C14 (Idempotence): at every reachable state, delivering a Promise or an
\* Accepted to a server and then delivering the identical message again
\* leaves the server's state as it was after the first delivery.
Idempotent ==
    \A e \in Responses :
        LET r1 == on_msg(e.dst, actor_states[e.dst], e.src, e.msg)
            r2 == on_msg(e.dst, r1.state, e.src, e.msg)
        IN r2.state = r1.state

\* C14 witness: a Promise for a ballot its undecided destination proposed is
\* in flight, and so is an Accepted whose delivery makes its destination decide.
IdempotentWitness ==
    /\ \E e \in Responses \cap network :
          /\ e.msg.type = "Promise"
          /\ ~Decided(e.dst)
          /\ e.msg.rid \in DOMAIN actor_states[e.dst].prepare_data
    /\ \E e \in Responses \cap network :
          /\ e.msg.type = "Accepted"
          /\ ~Decided(e.dst)
          /\ handle(e).state.decided

\* a ballot of server n that a later Put at n has superseded
Superseded(n, b) ==
    b \in DOMAIN actor_states[n].prepare_data /\ b.round_num < actor_states[n].round

\* C15 (Supersession): a Promise or Accepted for a ballot that a later Put at
\* the same undecided server has superseded is ignored: it changes no state,
\* and the server neither broadcasts Accept for that ballot nor decides on it.
Supersession ==
    \A env \in ToServers :
        (/\ env.msg.type \in {"Promise", "Accepted"}
         /\ ~Decided(env.dst)
         /\ Superseded(env.dst, env.msg.rid)) =>
            LET r == handle(env)
            IN /\ r.state = actor_states[env.dst]
               /\ ~\E o \in r.out : o.msg.type = "Accept"
               /\ ~r.state.decided

\* a decision on a superseded ballot is about to be taken
SupersededDecision ==
    \E env \in ToServers :
        /\ env.msg.type = "Accepted"
        /\ ~Decided(env.dst)
        /\ Superseded(env.dst, env.msg.rid)
        /\ handle(env).state.decided

\* the Promise and Accepted messages a server can receive for a ballot it has
\* no record of having proposed
Orphans ==
    {e \in ToServers :
        /\ e.msg.type \in {"Promise", "Accepted"}
        /\ e.msg.rid \notin DOMAIN actor_states[e.dst].prepare_data}

Above(b, hp) ==
    \A v \in hp : \/ b.round_num > v.round_num
                  \/ b.round_num = v.round_num /\ b.id > v.id

PromiseMonotonicityState ==
    \A env \in ToServers :
        (env.msg.type = "Prepare" /\ ~Decided(env.dst)) =>
            LET st == actor_states[env.dst]
                r == handle(env)
                again == on_msg(env.dst, r.state, env.src, env.msg)
            IN /\ IF Above(env.msg.rid, st.last_seen)
                  THEN /\ r.state = [st EXCEPT !.last_seen = {env.msg.rid}]
                       /\ r.out = {Envelope(env.dst, env.src,
                                            Promise(env.msg.request_id, env.msg.org_sender,
                                                    env.msg.rid))}
                  ELSE r.state = st /\ r.out = {}
               /\ again.state = r.state /\ again.out = {}

PromiseMonotonicityStep ==
    \A n \in Servers :
        \A v \in actor_states[n].last_seen :
            /\ actor_states'[n].last_seen # {}
            /\ ~Above(v, actor_states'[n].last_seen)

\* C17 (Promise monotonicity): an undecided node answers Prepare(b) with
\* Promise(b) and sets last_seen (highestPromised) to b exactly when last_seen
\* is unset or b is strictly greater; a Prepare at or below last_seen,
\* a redelivered one included, changes nothing and sends nothing; and over any
\* execution last_seen never decreases.
PromiseMonotonicity ==
    []PromiseMonotonicityState /\ [][PromiseMonotonicityStep]_vars

\* C17 witness: one undecided server that has promised has a Prepare above
\* its last_seen in flight, and another has one below its last_seen in flight.
PromiseMonotonicityWitness ==
    /\ \E e \in ToServers :
          /\ e.msg.type = "Prepare" /\ ~Decided(e.dst)
          /\ actor_states[e.dst].last_seen # {}
          /\ Above(e.msg.rid, actor_states[e.dst].last_seen)
    /\ \E f \in ToServers :
          /\ f.msg.type = "Prepare" /\ ~Decided(f.dst)
          /\ ~Above(f.msg.rid, actor_states[f.dst].last_seen)

\* the values of the Puts that minted ballot b: a Put handled by server b.id
\* whose Prepare broadcast carries b
MintingValues(b) ==
    {p.msg.value : p \in {x \in SentOfType("Put") \ network :
        /\ x.dst = b.id
        /\ \E q \in SentOfType("Prepare") :
              /\ q.src = b.id /\ q.msg.rid = b
              /\ q.msg.request_id = x.msg.request_id
              /\ q.msg.org_sender = x.src}}

\* the Accept and Accepted messages for ballot b among the envelopes es
Carrying(es, b) ==
    {e \in es : e.msg.type \in {"Accept", "Accepted"} /\ e.msg.rid = b}

\* C18 (One value per ballot): all Accept and Accepted messages ever sent for
\* a ballot b, and those a further or duplicate Promise or Accept delivery
\* would send, carry one value, the value of the Put that minted b.
OneValuePerBallot ==
    /\ \A e \in sent :
          e.msg.type \in {"Accept", "Accepted"} =>
              MintingValues(e.msg.rid) = {e.msg.value}
    /\ \A env \in ToServers :
          env.msg.type \in {"Promise", "Accept"} =>
              LET r == handle(env)
                  again == on_msg(env.dst, r.state, env.src, env.msg)
              IN \A o \in Carrying(r.out \cup again.out, env.msg.rid) :
                     /\ MintingValues(o.msg.rid) = {o.msg.value}
                     /\ \A e \in Carrying(sent, o.msg.rid) : e.msg.value = o.msg.value

\* C18 witness: a server has minted two ballots for different values, Accept
\* and Accepted have been sent for the older one, and a Promise whose
\* delivery broadcasts Accept for a ballot already carried by a sent Accept is
\* in flight.
OneValuePerBallotWitness ==
    /\ \E n \in Servers : \E b, c \in Minted(n) :
          /\ Greater(c, b)
          /\ actor_states[n].prepare_data[b] # actor_states[n].prepare_data[c]
          /\ \E e \in SentOfType("Accept") : e.msg.rid = b
          /\ \E e \in SentOfType("Accepted") : e.msg.rid = b
    /\ \E env \in ToServers :
          /\ env.msg.type = "Promise"
          /\ Carrying(on_msg(env.dst, handle(env).state, env.src, env.msg).out,
                      env.msg.rid) # {}

\* the values clients supplied in Puts that a server has handled
ProposedValues ==
    {p.msg.value : p \in {x \in SentOfType("Put") \ network :
        x.dst \in Servers /\ x.src \in Clients}}

\* C19 (Validity): the decided value of every decided server, and the value
\* any Accepted in flight would make a server decide, is a value some client
\* supplied in a Put that a server handled earlier.
Validity ==
    /\ \A n \in Servers :
          Decided(n) => /\ actor_states[n].value # {}
                        /\ actor_states[n].value \subseteq ProposedValues
    /\ \A env \in ToServers :
          LET r == handle(env)
          IN (~Decided(env.dst) /\ r.state.decided) =>
                 /\ r.state.value # {}
                 /\ r.state.value \subseteq ProposedValues

\* C19 witness: a server has decided, and an Accepted whose delivery makes
\* another server decide is in flight.
ValidityWitness ==
    /\ \E n \in Servers : Decided(n)
    /\ \E env \in ToServers :
          /\ env.msg.type = "Accepted" /\ ~Decided(env.dst)
          /\ handle(env).state.decided

DecidedSilentState ==
    \A env \in ToServers :
        Decided(env.dst) =>
            LET r == handle(env)
            IN /\ r.state.decided
               /\ \A o \in r.out : o.msg.type = "Prepare" /\ env.msg.type = "Put"

DecidedSilentStep ==
    \A n \in Servers :
        Decided(n) =>
            /\ actor_states'[n].decided
            /\ \A e \in sent' \ sent : e.src = n => e.msg.type = "Prepare"

\* C20 (Decided nodes fall silent): once a server has decided, no delivery to
\* it, a further client Put included, makes it send Promise, Accept, Accepted
\* or PutOk; the only message it still emits is the Prepare broadcast of a
\* later Put.
DecidedSilent ==
    []DecidedSilentState /\ [][DecidedSilentStep]_vars

\* C20 witness: a client Put is in flight to a decided server, and a decided
\* server has in flight an Accept for its last_seen ballot or a Prepare above
\* it.
DecidedSilentWitness ==
    /\ \E env \in ToServers : env.msg.type = "Put" /\ Decided(env.dst)
    /\ \E env \in ToServers :
          /\ Decided(env.dst)
          /\ \/ env.msg.type = "Accept" /\ {env.msg.rid} = actor_states[env.dst].last_seen
             \/ env.msg.type = "Prepare" /\ Above(env.msg.rid, actor_states[env.dst].last_seen)

====
